---- MODULE Spec2Model ----
(***************************************************************************)
(* Mental Arithmetic Trainer (src/MAT.py): the session controller of       *)
(* class ArithmeticProgram, its settings validation, answer evaluation,    *)
(* countdown and configuration file.                                       *)
(*                                                                         *)
(* Text (the content of an entry widget, a line of the configuration file, *)
(* a StringVar) is a sequence of characters, each a one-character string.  *)
(* The name of a setting inside a configuration line is kept as one        *)
(* symbol (for example "numbercount"): rstrip, split(';') and int() look   *)
(* at no letter of it.                                                     *)
(***************************************************************************)
EXTENDS Integers, Sequences, FiniteSets, TLC

(* ------------------------------------------------------------------ *)
(* Parameters of the program, MAT.py lines 19-37.                      *)
(* ------------------------------------------------------------------ *)
MAX_NUMBERS == 5

OPERATORS == << <<"+">>, <<"-">>, <<"·">> >>

RANGE_LIMIT == 1000

MAX_TIME_LIMIT == 900

(* The keys of a settings dict, in the insertion order of push_settings. *)
SettingKeys == <<"numbercount", "range_lower", "range_upper", "operator", "time_limit">>

defaults ==
    [numbercount |-> 2, range_lower |-> 0, range_upper |-> 20,
     operator |-> OPERATORS[1], time_limit |-> 120]

(* ------------------------------------------------------------------ *)
(* Bounds of the model.                                                *)
(* ------------------------------------------------------------------ *)
\* Answers counted in one session (advance_turn is not taken beyond it).
MaxAnswers == 1

\* Countdown callbacks scheduled and not yet fired at one time.
MaxPending == 2

(* ------------------------------------------------------------------ *)
(* Python's str(int) and int(str) on text.                             *)
(* ------------------------------------------------------------------ *)
Digits == <<"0", "1", "2", "3", "4", "5", "6", "7", "8", "9">>

IsDigit(c) == \E d \in 1..10 : Digits[d] = c

DigitVal(c) == (CHOOSE d \in 1..10 : Digits[d] = c) - 1

IsSpace(c) == c \in {" ", "\t", "\n"}

RECURSIVE NatStr(_)
NatStr(n) == IF n < 10 THEN <<Digits[n + 1]>>
             ELSE NatStr(n \div 10) \o <<Digits[(n % 10) + 1]>>

\* str(n) of a Python int.
str(n) == IF n < 0 THEN <<"-">> \o NatStr(0 - n) ELSE NatStr(n)

RECURSIVE lstrip(_)
lstrip(t) == IF t # <<>> /\ IsSpace(t[1]) THEN lstrip(Tail(t)) ELSE t

RECURSIVE rstrip(_)
rstrip(t) == IF t # <<>> /\ IsSpace(t[Len(t)]) THEN rstrip(SubSeq(t, 1, Len(t) - 1)) ELSE t

strip(t) == lstrip(rstrip(t))

\* The digits (and single underscores between digits) of an integer literal,
\* after the surrounding whitespace and the sign are taken off.
IntBody(t) ==
    LET s == strip(t)
    IN  IF s # <<>> /\ s[1] \in {"+", "-"} THEN Tail(s) ELSE s

\* int(t) raises ValueError.
int_ValueError(t) ==
    LET b == IntBody(t)
    IN  ~ (/\ b # <<>>
           /\ IsDigit(b[1])
           /\ IsDigit(b[Len(b)])
           /\ \A i \in 1..Len(b) :
                \/ IsDigit(b[i])
                \/ b[i] = "_" /\ IsDigit(b[i - 1]) /\ IsDigit(b[i + 1]))

RECURSIVE DigitsVal(_)
DigitsVal(b) ==
    IF b = <<>> THEN 0
    ELSE IF b[Len(b)] = "_" THEN DigitsVal(SubSeq(b, 1, Len(b) - 1))
    ELSE 10 * DigitsVal(SubSeq(b, 1, Len(b) - 1)) + DigitVal(b[Len(b)])

\* int(t) where it raises nothing.
int(t) ==
    LET s == strip(t)
        v == DigitsVal(IntBody(t))
    IN  IF s # <<>> /\ s[1] = "-" THEN 0 - v ELSE v

(* ------------------------------------------------------------------ *)
(* settings_errors, MAT.py lines 488-534.                              *)
(* ------------------------------------------------------------------ *)
\* The error messages, by what they are about.
ERR_INTEGERS == "All input fields except operator must only contain integers."

ERR_NUMBERCOUNT == "Number settings: maximum amount of numbers allowed"

ERR_RANGE_LIMIT == "Range settings: allowed range for the numbers"

ERR_RANGE_ORDER == "Range settings: lower range must be smaller than upper range."

ERR_OPERATOR == "Operator: unsupported operator, choose one from dropdown list."

ERR_TIME_LIMIT == "Time limit: must be between 0 and MAX_TIME_LIMIT."

IsOperator(op) == \E i \in 1..Len(OPERATORS) : OPERATORS[i] = op

\* FirstValueError with a slip: the loop ends at the key operator.
FirstValueError_to_operator(s) ==
    LET bad == {i \in 1..Len(SettingKeys) :
                  /\ \A j \in 1..i : SettingKeys[j] # "operator"
                  /\ int_ValueError(s[SettingKeys[i]])}
    IN  IF bad = {} THEN 0 ELSE CHOOSE i \in bad : \A j \in bad : i <= j

\* The position of the first key whose int() raises, 0 when none does.
FirstValueError(s) ==
    LET bad == {i \in 1..Len(SettingKeys) :
                  SettingKeys[i] # "operator" /\ int_ValueError(s[SettingKeys[i]])}
    IN  IF bad = {} THEN 0 ELSE CHOOSE i \in bad : \A j \in bad : i <= j

\* s after the loop of lines 497-504 has replaced s[i] by int(s[i]) for the
\* keys before position n (all of them when n = 0).
IntConverted(s, n) ==
    [k \in DOMAIN s |->
        LET i == CHOOSE j \in 1..Len(SettingKeys) : SettingKeys[j] = k
        IN  IF k # "operator" /\ (n = 0 \/ i < n) THEN int(s[k]) ELSE s[k]]

\* RangeErrors with a slip: > for >= in the comparison of the two ranges.
RangeErrors_gt(s) ==
    (IF ~ (0 <= s.range_lower /\ s.range_lower <= RANGE_LIMIT)
        \/ ~ (0 <= s.range_upper /\ s.range_upper <= RANGE_LIMIT)
     THEN <<ERR_RANGE_LIMIT>> ELSE <<>>)
    \o (IF s.range_lower > s.range_upper THEN <<ERR_RANGE_ORDER>> ELSE <<>>)

RangeErrors(s) ==
    (IF ~ (0 <= s.range_lower /\ s.range_lower <= RANGE_LIMIT)
        \/ ~ (0 <= s.range_upper /\ s.range_upper <= RANGE_LIMIT)
     THEN <<ERR_RANGE_LIMIT>> ELSE <<>>)
    \o (IF s.range_lower >= s.range_upper THEN <<ERR_RANGE_ORDER>> ELSE <<>>)

\* settings_errors with a slip: a time limit of MAX_TIME_LIMIT is let through.
settings_errors_time_le(s0) ==
    LET n == FirstValueError(s0)
        s == IntConverted(s0, n)
    IN  IF n # 0 THEN [errors |-> <<ERR_INTEGERS>>, s |-> s]
        ELSE [errors |->
                (IF ~ (1 < s.numbercount /\ s.numbercount <= MAX_NUMBERS)
                 THEN <<ERR_NUMBERCOUNT>> ELSE <<>>)
                \o RangeErrors(s)
                \o (IF ~ IsOperator(s.operator) THEN <<ERR_OPERATOR>> ELSE <<>>)
                \o (IF ~ (-1 < s.time_limit /\ s.time_limit <= MAX_TIME_LIMIT)
                    THEN <<ERR_TIME_LIMIT>> ELSE <<>>),
              s |-> s]

settings_errors(s0) ==
    LET n == FirstValueError(s0)
        s == IntConverted(s0, n)
    IN  IF n # 0 THEN [errors |-> <<ERR_INTEGERS>>, s |-> s]
        ELSE [errors |->
                (IF ~ (1 < s.numbercount /\ s.numbercount <= MAX_NUMBERS)
                 THEN <<ERR_NUMBERCOUNT>> ELSE <<>>)
                \o RangeErrors(s)
                \o (IF ~ IsOperator(s.operator) THEN <<ERR_OPERATOR>> ELSE <<>>)
                \o (IF ~ (-1 < s.time_limit /\ s.time_limit < MAX_TIME_LIMIT)
                    THEN <<ERR_TIME_LIMIT>> ELSE <<>>),
              s |-> s]

(* ------------------------------------------------------------------ *)
(* get_answer, MAT.py lines 537-568.                                   *)
(* ------------------------------------------------------------------ *)
RECURSIVE SumOf(_)
SumOf(numbers) == IF numbers = <<>> THEN 0 ELSE numbers[1] + SumOf(Tail(numbers))

\* SubFold with a slip: the numbers are taken off from the right.
RECURSIVE SubFold_right(_, _)
SubFold_right(base, rest) ==
    IF rest = <<>> THEN base ELSE base - SubFold_right(rest[1], Tail(rest))

\* base -= i for i in rest
RECURSIVE SubFold(_, _)
SubFold(base, rest) == IF rest = <<>> THEN base ELSE SubFold(base - rest[1], Tail(rest))

\* base *= i for i in rest
RECURSIVE MulFold(_, _)
MulFold(base, rest) == IF rest = <<>> THEN base ELSE MulFold(base * rest[1], Tail(rest))

\* The else branch of get_answer: showerror("No", ...), and 0 is returned.
get_answer_showerror(op) == ~ (op \in {<<"+">>, <<"-">>, <<"·">>})

get_answer(numbers, op) ==
    IF op = <<"+">> THEN SumOf(numbers)
    ELSE IF op = <<"-">> THEN SubFold(numbers[1], Tail(numbers))
    ELSE IF op = <<"·">> THEN MulFold(numbers[1], Tail(numbers))
    ELSE 0

(* ------------------------------------------------------------------ *)
(* The configuration file: write_cfg and read_cfg, MAT.py 602-668.     *)
(* A file is [exists, lines]; a line is text without its line break.   *)
(* ------------------------------------------------------------------ *)
NoFile == [exists |-> FALSE, lines |-> <<>>]

\* The keys of a settings dict as write_cfg iterates them: the five known
\* keys in the order of SettingKeys, then any other key of the dict.
RECURSIVE KeyOrder(_)
KeyOrder(keys) ==
    IF keys = {} THEN <<>>
    ELSE LET known == {i \in 1..Len(SettingKeys) : SettingKeys[i] \in keys}
         IN  IF known # {}
             THEN LET i == CHOOSE j \in known : \A m \in known : j <= m
                  IN  <<SettingKeys[i]>> \o KeyOrder(keys \ {SettingKeys[i]})
             ELSE LET k == CHOOSE x \in keys : TRUE
                  IN  <<k>> \o KeyOrder(keys \ {k})

\* CfgLine with a slip: the words are joined with "," and not ";".
CfgLine_comma(settings, k) ==
    <<k, ",">> \o (IF k = "operator" THEN settings[k] ELSE str(settings[k]))

\* ";".join([i, str(settings[i])])
CfgLine(settings, k) ==
    <<k, ";">> \o (IF k = "operator" THEN settings[k] ELSE str(settings[k]))

write_cfg(settings) ==
    LET order == KeyOrder(DOMAIN settings)
    IN  [exists |-> TRUE,
         lines |-> [i \in 1..Len(order) |-> CfgLine(settings, order[i])]]

\* line.split(';')
RECURSIVE split(_)
split(t) ==
    IF \A i \in 1..Len(t) : t[i] # ";" THEN <<t>>
    ELSE LET p == CHOOSE i \in 1..Len(t) : t[i] = ";" /\ \A j \in 1..(i - 1) : t[j] # ";"
         IN  <<SubSeq(t, 1, p - 1)>> \o split(SubSeq(t, p + 1, Len(t)))

\* The characters of a word as one string (the name of a setting).
RECURSIVE Join(_)
Join(t) == IF t = <<>> THEN "" ELSE t[1] \o Join(Tail(t))

\* The loop of lines 632-642 over the lines left, temp_settings so far in acc.
RECURSIVE ReadLines(_, _)
ReadLines(lines, acc) ==
    IF lines = <<>> THEN [exc |-> "none", temp_settings |-> acc]
    ELSE LET words == split(rstrip(lines[1]))
         IN  IF Len(words) < 2 THEN [exc |-> "IndexError", temp_settings |-> acc]
             ELSE LET setting == Join(words[1])
                      value == words[2]
                  IN  IF setting # "operator" /\ int_ValueError(value)
                      THEN [exc |-> "ValueError", temp_settings |-> acc]
                      ELSE ReadLines(Tail(lines),
                             [k \in (DOMAIN acc) \cup {setting} |->
                                IF k = setting
                                THEN (IF setting # "operator" THEN int(value) ELSE value)
                                ELSE acc[k]])

MSG_FILE_FAULTY == "The configuration file is faulty. Creating a new default file."

MSG_FILE_MISSING == "The configuration file was not found or could not be accessed."

\* read_cfg: the settings returned, the file it leaves, the message it shows.
read_cfg(file) ==
    IF ~ file.exists
    THEN [settings |-> defaults, file |-> write_cfg(defaults), shown |-> <<MSG_FILE_MISSING>>]
    ELSE LET r == ReadLines(file.lines, [k \in {} |-> 0])
         IN  IF r.exc = "none" /\ \A k \in DOMAIN defaults : k \in DOMAIN r.temp_settings
             THEN [settings |-> r.temp_settings, file |-> file, shown |-> <<>>]
             ELSE [settings |-> defaults, file |-> write_cfg(defaults),
                   shown |-> <<MSG_FILE_FAULTY>>]

(* ------------------------------------------------------------------ *)
(* The state of ArithmeticProgram.                                     *)
(* ------------------------------------------------------------------ *)
VARIABLES
    window,           \* "open" until quit destroys self.__window
    mode,             \* "Running": the running_active widgets are NORMAL and the
                      \* stopped_active ones DISABLED; "Stopped": the reverse
    cfgfile,          \* the file CFG_FILE
    settings,         \* self.__settings
    fields,           \* the text of the five settings widgets
    numbers,          \* self.__numbers, MAX_NUMBERS IntVars
    numbers_in_use,   \* self.__numbers_in_use, as the positions in numbers
    stoptimer,        \* self.__stoptimer
    time_left,        \* self.__time_left
    pending,          \* the countdown callbacks window.after has scheduled, in the
                      \* order they fire (all are scheduled 1000 ms ahead)
    answers_correct,  \* self.__answers_correct
    answers_all,      \* self.__answers_all
    results_cur,      \* self.__results_cur
    results_prev,     \* self.__results_prev
    shown,            \* the messages of the dialog the last handler showed
    last,             \* history: the last handler run (or the disabled button
                      \* pressed) and the text it was given
    attempts,         \* history: the answers given in the running game that were
                      \* the empty text or an integer (all), and those of them
                      \* that were the integer asked for (correct)
    args,             \* the arguments of a call of one of the module's functions
                      \* made on its own, outside the window
    result            \* what that call returned

\* The state of the program with its window.
program == <<window, mode, cfgfile, settings, fields, numbers, numbers_in_use,
             stoptimer, time_left, pending, answers_correct, answers_all,
             results_cur, results_prev, shown, last, attempts>>

vars == <<window, mode, cfgfile, settings, fields, numbers, numbers_in_use, stoptimer,
          time_left, pending, answers_correct, answers_all, results_cur, results_prev,
          shown, last, attempts, args, result>>

(* ------------------------------------------------------------------ *)
(* The inputs the model draws from.                                    *)
(* ------------------------------------------------------------------ *)
Fields(n, lo, hi, op, t) ==
    [numbercount |-> n, range_lower |-> lo, range_upper |-> hi, operator |-> op,
     time_limit |-> t]

\* What the user may leave in the settings widgets before pressing a button.
FieldChoices ==
    { Fields(str(2), str(0), str(1), <<"+">>, str(0)),
      Fields(str(3), str(0), str(1), <<"-">>, str(2)),
      Fields(str(2), str(1), str(2), <<"·">>, str(1)),
      Fields(str(2), str(0), str(0), <<"+">>, str(0)),
      Fields(str(1), str(0), str(1), <<"+">>, str(0)) }

\* What the user may have typed into the answer entry on pressing SUBMIT_KEY.
AnswerTexts ==
    { <<>>, <<" ">>, <<"a", "b", "c">>, str(0), <<" ", "1">> }

\* The configuration file found at launch: one an earlier run has written.
CfgFiles ==
    { write_cfg([numbercount |-> 2, range_lower |-> 0, range_upper |-> 1,
                 operator |-> <<"+">>, time_limit |-> 0]) }

(* ------------------------------------------------------------------ *)
(* __init__, MAT.py lines 41-219.                                      *)
(* ------------------------------------------------------------------ *)
\* The defaults inserted into the settings widgets, lines 58, 87, 90, 106, 119.
LaunchFields(s) ==
    Fields(str(s.numbercount), str(s.range_lower), str(s.range_upper), s.operator,
           str(s.time_limit))

\* op: the handler; text: the answer it was given; stops: it called stop_game.
NoHandler == [op |-> "init", text |-> <<>>, stops |-> FALSE]

\* No answer has been given in the game, or no game is running.
NoAttempts == [all |-> 0, correct |-> 0]

\* No function has been called on its own.
NoCall == <<>>

NoResult == [returned |-> FALSE]

\* The program launched with file as its configuration file.
LaunchWith(file) ==
        LET r == read_cfg(file)
        IN  /\ window = "open"
            /\ mode = "Stopped"
            /\ cfgfile = r.file
            /\ settings = r.settings
            /\ fields = LaunchFields(r.settings)
            /\ numbers = [i \in 1..MAX_NUMBERS |-> 0]
            /\ numbers_in_use = <<>>
            /\ stoptimer = FALSE
            /\ time_left = 0
            /\ pending = <<>>
            /\ answers_correct = 0
            /\ answers_all = 0
            /\ results_cur = <<>>
            /\ results_prev = <<>>
            /\ shown = r.shown
            /\ last = NoHandler
            /\ attempts = NoAttempts

Launch == \E file \in CfgFiles : LaunchWith(file)

Init == Launch /\ args = NoCall /\ result = NoResult

(* ------------------------------------------------------------------ *)
(* push_settings, MAT.py lines 290-321.                                *)
(* ------------------------------------------------------------------ *)
\* push_settings with a slip: a wrong number count alone does not keep the
\* settings from being set.
push_settings_lenient(flds, cur, display_errors) ==
    LET r == settings_errors(flds)
    IN  IF r.errors = <<>> \/ r.errors = <<ERR_NUMBERCOUNT>>
        THEN [ok |-> TRUE, settings |-> r.s, shown |-> <<>>]
        ELSE [ok |-> FALSE, settings |-> cur,
              shown |-> IF display_errors THEN r.errors ELSE <<>>]

\* The result for widget texts flds and current settings cur: whether the
\* settings were set, self.__settings after the call, the dialog shown.
push_settings(flds, cur, display_errors) ==
    LET r == settings_errors(flds)
    IN  IF r.errors = <<>>
        THEN [ok |-> TRUE, settings |-> r.s, shown |-> <<>>]
        ELSE [ok |-> FALSE, settings |-> cur,
              shown |-> IF display_errors THEN r.errors ELSE <<>>]

(* ------------------------------------------------------------------ *)
(* set_new_calculation, MAT.py lines 437-450: every array numbers may  *)
(* become, randint(low, high) drawn for each position in use.          *)
(* ------------------------------------------------------------------ *)
\* set_new_calculation with a slip: one more than range_upper can be drawn.
set_new_calculation_wide(nums, in_use, s) ==
    LET used == {in_use[j] : j \in 1..Len(in_use)}
    IN  {[i \in 1..MAX_NUMBERS |-> IF i \in used THEN f[i] ELSE nums[i]] :
            f \in [used -> s.range_lower..(s.range_upper + 1)]}

set_new_calculation(nums, in_use, s) ==
    LET used == {in_use[j] : j \in 1..Len(in_use)}
    IN  {[i \in 1..MAX_NUMBERS |-> IF i \in used THEN f[i] ELSE nums[i]] :
            f \in [used -> s.range_lower..s.range_upper]}

(* ------------------------------------------------------------------ *)
(* countdown, MAT.py lines 374-390, for the flag, the timer variable   *)
(* and the callbacks scheduled as the call finds them. chain is the    *)
(* history mark (stale) of the callback that made the call.            *)
(* ------------------------------------------------------------------ *)
\* countdown with a slip: the time left is set to count, not to count - 1.
countdown_shows_count(count, flag, tl, pend, chain) ==
    IF flag THEN [time_left |-> tl, pending |-> pend, stop_game |-> FALSE]
    ELSE IF count > 0
    THEN [time_left |-> count,
          pending |-> Append(pend, [count |-> count - 1, stale |-> chain]),
          stop_game |-> FALSE]
    ELSE [time_left |-> tl, pending |-> pend, stop_game |-> TRUE]

\* countdown with a slip: the call that finds count at 0 returns without
\* stopping the game.
countdown_no_stop(count, flag, tl, pend, chain) ==
    IF flag THEN [time_left |-> tl, pending |-> pend, stop_game |-> FALSE]
    ELSE IF count > 0
    THEN [time_left |-> count - 1,
          pending |-> Append(pend, [count |-> count - 1, stale |-> chain]),
          stop_game |-> FALSE]
    ELSE [time_left |-> tl, pending |-> pend, stop_game |-> FALSE]

\* countdown with a slip: the game is stopped by the call that brings the
\* time left to 0.
countdown_early(count, flag, tl, pend, chain) ==
    IF flag THEN [time_left |-> tl, pending |-> pend, stop_game |-> FALSE]
    ELSE IF count > 1
    THEN [time_left |-> count - 1,
          pending |-> Append(pend, [count |-> count - 1, stale |-> chain]),
          stop_game |-> FALSE]
    ELSE [time_left |-> tl, pending |-> pend, stop_game |-> TRUE]

countdown(count, flag, tl, pend, chain) ==
    IF flag THEN [time_left |-> tl, pending |-> pend, stop_game |-> FALSE]
    ELSE IF count > 0
    THEN [time_left |-> count - 1,
          pending |-> Append(pend, [count |-> count - 1, stale |-> chain]),
          stop_game |-> FALSE]
    ELSE [time_left |-> tl, pending |-> pend, stop_game |-> TRUE]

\* "%s / %s" % (answers_correct, answers_all)
ScoreText(c, a) == str(c) \o <<" ", "/", " ">> \o str(a)

\* History: the callbacks that are scheduled when the Stop button is pressed
\* are marked stale, and so is what such a callback schedules in its turn.
MarkStale(pend) == [i \in 1..Len(pend) |-> [pend[i] EXCEPT !.stale = TRUE]]

(* ------------------------------------------------------------------ *)
(* start_game_setup, MAT.py lines 323-350.                             *)
(* ------------------------------------------------------------------ *)
\* self.__numbers[first_used_number_index:], as positions 1..MAX_NUMBERS.
NumbersInUse(s) ==
    LET first == MAX_NUMBERS - s.numbercount
        from == IF first >= 0 THEN first + 1
                ELSE IF MAX_NUMBERS + first >= 0 THEN MAX_NUMBERS + first + 1 ELSE 1
    IN  [j \in 1..(MAX_NUMBERS - from + 1) |-> from + j - 1]

\* ResultsAtStart with a slip: the test of line 346 is lost.
ResultsAtStart_untested(cur, prev) == [cur |-> <<>>, prev |-> cur]

\* Lines 346-348: the results of the last game move to "previous".
ResultsAtStart(cur, prev) ==
    IF cur # <<>> THEN [cur |-> <<>>, prev |-> cur] ELSE [cur |-> cur, prev |-> prev]

(* ------------------------------------------------------------------ *)
(* stop_game, MAT.py lines 452-474: what it assigns.                   *)
(* ------------------------------------------------------------------ *)
\* stop_game with a slip: the answer counts are not flushed.
stop_game_no_flush ==
    [stoptimer |-> TRUE, time_left |-> 0, mode |-> "Stopped",
     answers_correct |-> answers_correct, answers_all |-> answers_all]

\* stop_game with a slip: the handler switches between running and stopped.
stop_game_toggle ==
    [stoptimer |-> TRUE, time_left |-> 0,
     mode |-> IF mode = "Running" THEN "Stopped" ELSE "Running",
     answers_correct |-> 0, answers_all |-> 0]

\* stop_game with a slip: the time left is not set to 0.
stop_game_time_kept ==
    [stoptimer |-> TRUE, time_left |-> time_left, mode |-> "Stopped",
     answers_correct |-> 0, answers_all |-> 0]

stop_game ==
    [stoptimer |-> TRUE, time_left |-> 0, mode |-> "Stopped",
     answers_correct |-> 0, answers_all |-> 0]

(* ------------------------------------------------------------------ *)
(* The state of the two buttons that start and stop the game: the      *)
(* Start button is one of the stopped_active widgets, the Stop button  *)
(* one of the running_active widgets (lines 194-219, 331-335, 464-468).*)
(* ------------------------------------------------------------------ *)
\* start_button with a slip: the button is never disabled.
start_button_never_disabled == "normal"

start_button == IF mode = "Stopped" THEN "normal" ELSE "disabled"

stop_button == IF mode = "Running" THEN "normal" ELSE "disabled"

(* ------------------------------------------------------------------ *)
(* start_game, MAT.py lines 267-288: the Start button, pressed with    *)
(* text f left in the settings widgets (NORMAL only while stopped).    *)
(* ------------------------------------------------------------------ *)
StartGame(f) ==
    /\ window = "open"
    /\ start_button = "normal"
    /\ fields' = f
    /\ last' = [op |-> "start_game", text |-> <<>>, stops |-> FALSE]
    /\ \E p \in {push_settings(f, settings, TRUE)} :
         IF p.ok
         THEN \E cd \in {IF p.settings.time_limit # 0
                         THEN countdown(p.settings.time_limit, FALSE, time_left,
                                        pending, FALSE)
                         ELSE [time_left |-> time_left, pending |-> pending,
                               stop_game |-> FALSE]} :
                \E in_use \in {NumbersInUse(p.settings)} :
                    /\ Len(cd.pending) <= MaxPending
                    /\ settings' = p.settings
                    /\ mode' = "Running"
                    /\ numbers_in_use' = in_use
                    /\ stoptimer' = FALSE
                    /\ results_cur' = ResultsAtStart(results_cur, results_prev).cur
                    /\ results_prev' = ResultsAtStart(results_cur, results_prev).prev
                    /\ numbers' \in set_new_calculation(numbers, in_use, p.settings)
                    /\ time_left' = cd.time_left
                    /\ pending' = cd.pending
                    /\ shown' = p.shown
                    /\ attempts' = NoAttempts
                    /\ UNCHANGED <<answers_correct, answers_all>>
         ELSE /\ shown' = p.shown
              /\ UNCHANGED <<settings, mode, numbers_in_use, stoptimer, results_cur,
                             results_prev, numbers, time_left, pending,
                             answers_correct, answers_all, attempts>>
    /\ UNCHANGED <<window, cfgfile, args, result>>

(* ------------------------------------------------------------------ *)
(* The Stop button: stop_game.                                         *)
(* ------------------------------------------------------------------ *)
StopGame ==
    /\ window = "open"
    /\ stop_button = "normal"
    /\ stoptimer' = stop_game.stoptimer
    /\ time_left' = stop_game.time_left
    /\ mode' = stop_game.mode
    /\ answers_correct' = stop_game.answers_correct
    /\ answers_all' = stop_game.answers_all
    /\ pending' = MarkStale(pending)
    /\ shown' = <<>>
    /\ last' = [op |-> "stop_game", text |-> <<>>, stops |-> TRUE]
    /\ attempts' = NoAttempts
    /\ UNCHANGED <<window, cfgfile, settings, fields, numbers, numbers_in_use,
                   results_cur, results_prev, args, result>>

(* ------------------------------------------------------------------ *)
(* A scheduled countdown(count) fires.                                 *)
(* ------------------------------------------------------------------ *)
Tick ==
    /\ window = "open"
    /\ pending # <<>>
    /\ \E cd \in {countdown(Head(pending).count, stoptimer, time_left, Tail(pending),
                            Head(pending).stale)} :
         /\ IF cd.stop_game
            THEN /\ stoptimer' = stop_game.stoptimer
                 /\ time_left' = stop_game.time_left
                 /\ mode' = stop_game.mode
                 /\ answers_correct' = stop_game.answers_correct
                 /\ answers_all' = stop_game.answers_all
                 /\ pending' = cd.pending
                 /\ attempts' = NoAttempts
            ELSE /\ time_left' = cd.time_left
                 /\ pending' = cd.pending
                 /\ UNCHANGED <<stoptimer, mode, answers_correct, answers_all,
                                attempts>>
         /\ last' = [op |-> "countdown", text |-> <<>>, stops |-> cd.stop_game]
    /\ shown' = <<>>
    /\ UNCHANGED <<window, cfgfile, settings, fields, numbers, numbers_in_use,
                   results_cur, results_prev, args, result>>

(* ------------------------------------------------------------------ *)
(* answer_process and advance_turn, MAT.py lines 392-435.              *)
(* ------------------------------------------------------------------ *)
MSG_BAD_INPUT == "Input can only be an integer or empty"

MSG_NO == "This really shouldn't happen. Bug report time."

\* answer_case with the user answer stripped before it is compared with "".
answer_case_stripped(uanswer, answer) ==
    IF ~ int_ValueError(uanswer)
    THEN (IF int(uanswer) = answer THEN "correct" ELSE "wrong")
    ELSE IF strip(uanswer) = <<>> THEN "skip" ELSE "bad_input"

\* answer_case with a slip: what is no integer counts as a wrong answer.
answer_case_no_retry(uanswer, answer) ==
    IF ~ int_ValueError(uanswer)
    THEN (IF int(uanswer) = answer THEN "correct" ELSE "wrong")
    ELSE IF uanswer = <<>> THEN "skip" ELSE "wrong"

\* Lines 405-419: what becomes of the user answer, given the correct one.
answer_case(uanswer, answer) ==
    IF ~ int_ValueError(uanswer)
    THEN (IF int(uanswer) = answer THEN "correct" ELSE "wrong")
    ELSE IF uanswer = <<>> THEN "skip" ELSE "bad_input"

\* advance_turn with a slip: an answer that is not correct is not counted.
advance_turn_wrong_uncounted(correct, c, a) ==
    IF correct
    THEN [answers_correct |-> c + 1, answers_all |-> a + 1,
          results_cur |-> ScoreText(c + 1, a + 1)]
    ELSE [answers_correct |-> c, answers_all |-> a, results_cur |-> ScoreText(c, a)]

\* advance_turn with a slip: the test of correct is lost.
advance_turn_always(correct, c, a) ==
    [answers_correct |-> c + 1, answers_all |-> a + 1,
     results_cur |-> ScoreText(c + 1, a + 1)]

\* Lines 426-433: the counters and the current results text.
advance_turn(correct, c, a) ==
    LET c1 == IF correct THEN c + 1 ELSE c
    IN  [answers_correct |-> c1, answers_all |-> a + 1,
         results_cur |-> ScoreText(c1, a + 1)]

\* The numbers shown, in the order of numbers_in_use (lines 398-400).
ShownNumbers == [j \in 1..Len(numbers_in_use) |-> numbers[numbers_in_use[j]]]

\* History: the attempts so far (att) and the answer uanswer to the equation
\* of numbers ns and operator op. The empty text and every integer is one
\* attempt more, the integer the equation asks for a correct one; any other
\* text is none.
Attempted(att, uanswer, ns, op) ==
    IF uanswer = <<>> THEN [att EXCEPT !.all = @ + 1]
    ELSE IF int_ValueError(uanswer) THEN att
    ELSE IF int(uanswer) = get_answer(ns, op)
    THEN [all |-> att.all + 1, correct |-> att.correct + 1]
    ELSE [att EXCEPT !.all = @ + 1]

AnswerProcess(uanswer) ==
    /\ window = "open"
    /\ mode = "Running"
    /\ last' = [op |-> "answer_process", text |-> uanswer, stops |-> FALSE]
    /\ attempts' = Attempted(attempts, uanswer, ShownNumbers, settings.operator)
    /\ LET answer == get_answer(ShownNumbers, settings.operator)
           case == answer_case(uanswer, answer)
           noted == IF get_answer_showerror(settings.operator) THEN <<MSG_NO>> ELSE <<>>
       IN  IF case = "bad_input"
           THEN /\ shown' = noted \o <<MSG_BAD_INPUT>>
                /\ UNCHANGED <<answers_correct, answers_all, results_cur, numbers>>
           ELSE LET t == advance_turn(case = "correct", answers_correct, answers_all)
                IN  /\ answers_all < MaxAnswers
                    /\ answers_correct' = t.answers_correct
                    /\ answers_all' = t.answers_all
                    /\ results_cur' = t.results_cur
                    /\ numbers' \in set_new_calculation(numbers, numbers_in_use, settings)
                    /\ shown' = noted
    /\ UNCHANGED <<window, mode, cfgfile, settings, fields, numbers_in_use, stoptimer,
                   time_left, pending, results_prev, args, result>>

(* ------------------------------------------------------------------ *)
(* quit, MAT.py lines 479-485, with text f left in the settings        *)
(* widgets. destroy() ends the main loop and the                       *)
(* process: the Tk variables and the scheduled callbacks go with the   *)
(* window, and only the settings written to the file remain.           *)
(* ------------------------------------------------------------------ *)
Quit(f) ==
    /\ window = "open"
    /\ mode = "Running" => f = fields
    /\ fields' = f
    /\ LET p == push_settings(f, settings, FALSE)
       IN  /\ settings' = p.settings
           /\ cfgfile' = write_cfg(p.settings)
    /\ window' = "destroyed"
    /\ mode' = "Stopped"
    /\ numbers' = [i \in 1..MAX_NUMBERS |-> 0]
    /\ numbers_in_use' = <<>>
    /\ stoptimer' = TRUE
    /\ time_left' = 0
    /\ pending' = <<>>
    /\ answers_correct' = 0
    /\ answers_all' = 0
    /\ results_cur' = <<>>
    /\ results_prev' = <<>>
    /\ shown' = <<>>
    /\ last' = [op |-> "quit", text |-> <<>>, stops |-> FALSE]
    /\ attempts' = NoAttempts
    /\ UNCHANGED <<args, result>>

(* ------------------------------------------------------------------ *)
(* A press of the Start button while it is DISABLED: Tk runs no        *)
(* command of a disabled button, start_game is not called. last notes  *)
(* the press.                                                          *)
(* ------------------------------------------------------------------ *)
PressStartDisabled ==
    /\ window = "open"
    /\ start_button = "disabled"
    /\ last' = [op |-> "start_button", text |-> <<>>, stops |-> FALSE]
    /\ UNCHANGED <<window, mode, cfgfile, settings, fields, numbers, numbers_in_use,
                   stoptimer, time_left, pending, answers_correct, answers_all,
                   results_cur, results_prev, shown, attempts, args, result>>

Next ==
    \/ \E f \in FieldChoices \cup {fields} : StartGame(f)
    \/ StopGame
    \/ Tick
    \/ \E uanswer \in AnswerTexts : AnswerProcess(uanswer)
    \/ \E f \in FieldChoices \cup {fields} : Quit(f)
    \/ PressStartDisabled

Spec == Init /\ [][Next]_vars

(* ------------------------------------------------------------------ *)
(* The program under the main loop of Tk (lines 476-477): a callback  *)
(* that window.after has scheduled is run by the loop 1000 ms later,   *)
(* as long as the window is open, whatever the user does in between.   *)
(* ------------------------------------------------------------------ *)
SpecTicksFire == Init /\ [][Next]_vars /\ WF_vars(Tick)

(* ------------------------------------------------------------------ *)
(* The program launched with any configuration file that read_cfg      *)
(* reads without an exception: the file is text on disk, which the     *)
(* user or another program may have written.                           *)
(* ------------------------------------------------------------------ *)
\* The file an earlier run has written, and one whose numbercount is 9.
CfgFilesAny ==
    CfgFiles
    \cup { write_cfg([numbercount |-> 9, range_lower |-> 0, range_upper |-> 1,
                      operator |-> <<"+">>, time_limit |-> 0]) }

InitAnyCfg ==
    /\ \E file \in CfgFilesAny : LaunchWith(file)
    /\ args = NoCall
    /\ result = NoResult

SpecAnyCfg == InitAnyCfg /\ [][Next]_vars

(* ------------------------------------------------------------------ *)
(* settings_errors called on its own, on the texts of five widgets.    *)
(* ------------------------------------------------------------------ *)
\* The texts tried for the widgets: integers on both sides of every limit of
\* lines 507-530, and texts that are no integers.
SettingsInputs ==
    { Fields(n, lo, hi, op, t) :
        n \in {str(1), str(2), str(MAX_NUMBERS), str(MAX_NUMBERS + 1),
               <<" ", "3", " ">>, <<"a">>},
        lo \in {str(-1), str(0), str(RANGE_LIMIT), str(RANGE_LIMIT + 1),
                <<"1", ".", "5">>},
        hi \in {str(-1), str(1), str(RANGE_LIMIT), str(RANGE_LIMIT + 1), <<>>},
        op \in {<<"+">>, <<"·">>, <<"/">>},
        t \in {str(-1), str(0), str(MAX_TIME_LIMIT - 1), str(MAX_TIME_LIMIT), <<>>} }

InitSettingsErrors == Launch /\ args \in SettingsInputs /\ result = NoResult

CallSettingsErrors ==
    /\ ~ result.returned
    /\ result' = [returned |-> TRUE, value |-> settings_errors(args)]
    /\ UNCHANGED <<program, args>>

SpecSettingsErrors == InitSettingsErrors /\ [][CallSettingsErrors]_vars

(* ------------------------------------------------------------------ *)
(* get_answer called on its own, on a list of numbers and an operator. *)
(* ------------------------------------------------------------------ *)
\* The lists tried: 1 to MAX_NUMBERS numbers, as answer_process collects
\* them (lines 398-400), with the operators of OPERATORS and one that is not.
GetAnswerInputs ==
    { [numbers |-> ns, op |-> op] :
        ns \in UNION {[1..n -> {0, 1, 2, 7}] : n \in 1..MAX_NUMBERS},
        op \in {<<"+">>, <<"-">>, <<"·">>, <<"/">>} }

InitGetAnswer == Launch /\ args \in GetAnswerInputs /\ result = NoResult

\* value: the number returned; shown: the dialog of showerror.
CallGetAnswer ==
    /\ ~ result.returned
    /\ result' = [returned |-> TRUE,
                  value |-> get_answer(args.numbers, args.op),
                  shown |-> IF get_answer_showerror(args.op) THEN <<MSG_NO>> ELSE <<>>]
    /\ UNCHANGED <<program, args>>

SpecGetAnswer == InitGetAnswer /\ [][CallGetAnswer]_vars

(* ------------------------------------------------------------------ *)
(* write_cfg and read_cfg called on their own, one after the other: a  *)
(* run saves its settings at quit, the next run loads them at launch.  *)
(* ------------------------------------------------------------------ *)
\* Settings that settings_errors lets through, with values at the limits.
SavedSettings ==
    { s \in [numbercount : {2, 3, MAX_NUMBERS},
             range_lower : {0, 7, RANGE_LIMIT - 1},
             range_upper : {1, 20, RANGE_LIMIT},
             operator : {<<"+">>, <<"-">>, <<"·">>},
             time_limit : {0, 120, MAX_TIME_LIMIT - 1}] :
        s.range_lower < s.range_upper }

InitWriteRead == Launch /\ args \in SavedSettings /\ result = NoResult

\* value: what read_cfg returns, the file it leaves and the dialog it shows.
CallWriteRead ==
    /\ ~ result.returned
    /\ result' = [returned |-> TRUE, value |-> read_cfg(write_cfg(args))]
    /\ UNCHANGED <<program, args>>

SpecWriteRead == InitWriteRead /\ [][CallWriteRead]_vars

(* ------------------------------------------------------------------ *)
(* Properties.                                                         *)
(* ------------------------------------------------------------------ *)
\* The positions of numbers whose values make the equation shown.
InUse == {numbers_in_use[j] : j \in 1..Len(numbers_in_use)}

\* A new calculation has been set: every number in use lies in the range
\* of the settings, the other IntVars keep their values.
NewCalculation ==
    \A i \in 1..MAX_NUMBERS :
        IF i \in InUse
        THEN numbers'[i] \in settings.range_lower..settings.range_upper
        ELSE numbers'[i] = numbers[i]

\* C1: after the Stop button is pressed while a countdown callback is
\* scheduled, that callback (and what it would schedule) does nothing when
\* it fires: the time left, the mode, the flag and the counters stay and
\* nothing is scheduled again, whatever was done in between, a successful
\* start included.
C1_StaleTickIsNoOp ==
    [][(Tick /\ Head(pending).stale)
         => /\ time_left' = time_left
            /\ mode' = mode
            /\ pending' = Tail(pending)
            /\ UNCHANGED <<stoptimer, answers_correct, answers_all>>]_vars

\* C2: in a game started with time limit 0 no countdown callback stops the
\* game or changes the time left.
C2_NoTimerNoTick ==
    [][(Tick /\ mode = "Running" /\ settings.time_limit = 0)
         => (mode' = "Running" /\ time_left' = time_left)]_vars

\* C3: the Start button pressed on settings that fail validation leaves the
\* game stopped and changes nothing of the session: settings, counters, both
\* results texts, time left, flag, numbers; no countdown is scheduled.
C3_FailedStartChangesNothing ==
    [][\A f \in FieldChoices \cup {fields} :
         (StartGame(f) /\ settings_errors(f).errors # <<>>)
           => /\ mode' = "Stopped"
              /\ shown' = settings_errors(f).errors
              /\ UNCHANGED <<settings, answers_correct, answers_all, results_cur,
                             results_prev, time_left, pending, stoptimer, numbers,
                             numbers_in_use>>]_vars

\* C3: a start has failed on a number count of 1, after a game with answers.
C3_Witness ==
    /\ last.op = "start_game"
    /\ mode = "Stopped"
    /\ shown = <<ERR_NUMBERCOUNT>>
    /\ fields.numbercount = str(1)
    /\ results_cur # <<>>

ScenarioA == Fields(str(2), str(0), str(0), <<"+">>, str(0))

SmallestRange == Fields(str(2), str(0), str(1), <<"+">>, str(0))

\* C4 as claimed: with 2 numbers, range 0-0, operator + and time limit 0 the
\* start succeeds, every equation is 0 + 0 and the answer "0" gives "1 / 1".
C4_ScenarioA ==
    [][/\ StartGame(ScenarioA)
            => (mode' = "Running" /\ \A i \in InUse' : numbers'[i] = 0)
       /\ (fields = ScenarioA /\ answers_all = 0 /\ AnswerProcess(str(0)))
            => results_cur' = <<"1", " ", "/", " ", "1">>]_vars

\* C4 as amended: with range 0-0 the start fails on the order of the ranges
\* and the game stays stopped; with range 0-1 (2 numbers, +, no time limit)
\* the start succeeds, every equation shown has two numbers of 0..1, and the
\* correct sum given as first answer sets both counters to 1 and the results
\* text to "1 / 1".
C4_SmallestRange ==
    [][/\ StartGame(ScenarioA)
            => /\ mode' = "Stopped"
               /\ shown' = <<ERR_RANGE_ORDER>>
               /\ UNCHANGED <<settings, numbers, answers_correct, answers_all>>
       /\ StartGame(SmallestRange) => mode' = "Running"
       /\ (mode' = "Running" /\ fields' = SmallestRange)
            => /\ Cardinality(InUse') = 2
               /\ \A i \in InUse' : numbers'[i] \in 0..1
       /\ \A u \in AnswerTexts :
            (/\ fields = SmallestRange
             /\ answers_all = 0
             /\ AnswerProcess(u)
             /\ ~ int_ValueError(u)
             /\ int(u) = SumOf(ShownNumbers))
              => /\ answers_correct' = 1
                 /\ answers_all' = 1
                 /\ results_cur' = <<"1", " ", "/", " ", "1">>]_vars

\* C4: a start on range 0-0 has failed.
C4_Witness ==
    /\ last.op = "start_game"
    /\ fields = ScenarioA
    /\ mode = "Stopped"
    /\ shown = <<ERR_RANGE_ORDER>>

\* C5 as claimed: an answer that is empty once stripped (the empty text, and
\* whitespace alone) is a skip: one more answer counted, none more correct,
\* no dialog, a new calculation, the game still running.
C5_BlankIsSkip ==
    [][\A u \in AnswerTexts :
         (AnswerProcess(u) /\ strip(u) = <<>>)
           => /\ answers_all' = answers_all + 1
              /\ answers_correct' = answers_correct
              /\ shown' = <<>>
              /\ NewCalculation
              /\ mode' = "Running"]_vars

\* C5 as amended: the empty text is a skip (one more answer counted, none
\* more correct, no dialog, a new calculation, the game still running);
\* whitespace alone is no skip but bad input: the counters, the results text
\* and the numbers stay and the dialog is shown.
C5_EmptyIsSkip ==
    [][\A u \in AnswerTexts :
         /\ (AnswerProcess(u) /\ u = <<>>)
              => /\ answers_all' = answers_all + 1
                 /\ answers_correct' = answers_correct
                 /\ shown' = <<>>
                 /\ NewCalculation
                 /\ mode' = "Running"
         /\ (AnswerProcess(u) /\ u # <<>> /\ strip(u) = <<>>)
              => /\ shown' = <<MSG_BAD_INPUT>>
                 /\ mode' = "Running"
                 /\ UNCHANGED <<answers_correct, answers_all, results_cur,
                                numbers>>]_vars

\* C5: the empty text has been given as first answer of a game.
C5_Witness ==
    /\ last.op = "answer_process"
    /\ last.text = <<>>
    /\ mode = "Running"
    /\ results_cur = <<"0", " ", "/", " ", "1">>

\* C6: an answer that is an integer is always one attempt: both counters
\* grow by one when it equals the correct answer, answers_all alone
\* otherwise; the results text is "<correct> / <all>" of the new counters, a
\* new calculation is set and the game is still running.
C6_IntegerIsAttempt ==
    [][\A u \in AnswerTexts :
         (AnswerProcess(u) /\ ~ int_ValueError(u))
           => /\ answers_all' = answers_all + 1
              /\ answers_correct' =
                   IF int(u) = get_answer(ShownNumbers, settings.operator)
                   THEN answers_correct + 1 ELSE answers_correct
              /\ results_cur' =
                   str(answers_correct') \o <<" ", "/", " ">> \o str(answers_all')
              /\ NewCalculation
              /\ mode' = "Running"
              /\ shown' = <<>>]_vars

\* C6: an integer that is the correct answer has been given in a game that
\* follows a game of one answer, which was not correct.
C6_Witness ==
    /\ last.op = "answer_process"
    /\ ~ int_ValueError(last.text)
    /\ mode = "Running"
    /\ results_prev = <<"0", " ", "/", " ", "1">>
    /\ results_cur = <<"1", " ", "/", " ", "1">>

\* C7: an answer that is not empty and no integer is no attempt: counters,
\* results text and numbers stay, the dialog is shown, the game is still
\* running.
C7_BadInputIsNoAttempt ==
    [][\A u \in AnswerTexts :
         (AnswerProcess(u) /\ u # <<>> /\ int_ValueError(u))
           => /\ shown' = <<MSG_BAD_INPUT>>
              /\ mode' = "Running"
              /\ UNCHANGED <<answers_correct, answers_all, results_cur, numbers,
                             numbers_in_use, time_left>>]_vars

\* C7: "abc" has been answered in a game with one answer counted.
C7_Witness ==
    /\ last.op = "answer_process"
    /\ last.text = <<"a", "b", "c">>
    /\ shown = <<MSG_BAD_INPUT>>
    /\ mode = "Running"
    /\ answers_all = 1

\* The only countdown callback scheduled is the one of the running game,
\* which has a time limit: no callback is left from a game stopped before.
OwnTickOnly == mode = "Running" /\ settings.time_limit > 0 /\ Len(pending) = 1

\* C8 as claimed: the callback whose decrement brings the time left to 0
\* stops the game.
C8_StopsOnReachingZero ==
    [][(Tick /\ OwnTickOnly /\ time_left > 0 /\ time_left' = 0)
         => mode' = "Stopped"]_vars

\* C8 as amended: with a time limit T > 0 and no callback left from a game
\* stopped before, the start shows T - 1 as time left; a callback that finds
\* the time left positive takes one off and the game runs on, also when that
\* brings it to 0; the callback that finds it 0 (the T-th one) stops the
\* game. So for T = 1 the first callback stops the game with time left 0.
C8_StopsAfterZero ==
    [][/\ \A f \in FieldChoices \cup {fields} :
            (StartGame(f) /\ mode' = "Running" /\ settings'.time_limit > 0
               /\ pending = <<>>)
              => (time_left' = settings'.time_limit - 1 /\ Len(pending') = 1)
       /\ (Tick /\ OwnTickOnly)
            => IF time_left = 0
               THEN mode' = "Stopped" /\ time_left' = 0 /\ pending' = <<>>
               ELSE /\ mode' = "Running"
                    /\ time_left' = time_left - 1
                    /\ Len(pending') = 1]_vars

\* C8: the countdown has stopped a game of time limit 2 that was still
\* running with time left 0.
C8_Witness ==
    /\ last.op = "countdown"
    /\ last.stops
    /\ mode = "Stopped"
    /\ settings.time_limit = 2
    /\ time_left = 0
    /\ pending = <<>>

\* C9: while the game runs the equation shown has exactly numbercount
\* numbers, each within range_lower..range_upper of the settings.
C9_EquationWithinSettings ==
    (window = "open" /\ mode = "Running")
      => /\ Len(numbers_in_use) = settings.numbercount
         /\ Cardinality(InUse) = settings.numbercount
         /\ \A i \in InUse :
              /\ i \in 1..MAX_NUMBERS
              /\ settings.range_lower <= numbers[i]
              /\ numbers[i] <= settings.range_upper

\* C9: a game of three numbers is running after an answer.
C9_Witness ==
    /\ mode = "Running"
    /\ settings.numbercount = 3
    /\ settings.range_lower = 0
    /\ answers_all = 1

\* C10: whenever the game starts running both counters are 0, so the first
\* results text of every game is "0 / 1" or "1 / 1".
C10_CountersZeroAtStart ==
    [][/\ (mode = "Stopped" /\ mode' = "Running")
            => (answers_correct' = 0 /\ answers_all' = 0)
       /\ (mode = "Running" /\ results_cur = <<>> /\ results_cur' # <<>>)
            => results_cur' \in {<<"0", " ", "/", " ", "1">>,
                                 <<"1", " ", "/", " ", "1">>}]_vars

\* C10: the first answer of a game that follows a game with a correct
\* answer: it is not correct, and the results text is "0 / 1".
C10_Witness ==
    /\ mode = "Running"
    /\ last.op = "answer_process"
    /\ results_prev = <<"1", " ", "/", " ", "1">>
    /\ results_cur = <<"0", " ", "/", " ", "1">>

\* C11: while the window is open the previous results text changes only in
\* a successful start that finds the current results text not empty, that
\* is, after a game with at least one answer counted: it becomes that text,
\* the final "<correct> / <all>" of that game, and the current text is
\* cleared. A successful start that finds it empty (the game before had no
\* answer counted) leaves both texts. While a game runs the current text is
\* empty as long as no answer is counted and is the text of the counters
\* after, and the end of a game leaves it.
C11_PreviousOnlyAtStart ==
    [][window' = "open"
         => /\ results_prev' # results_prev
                 => /\ StartGame(fields') /\ mode' = "Running"
                    /\ results_cur # <<>>
                    /\ results_prev' = results_cur
                    /\ results_cur' = <<>>
            /\ (mode' = "Running" /\ StartGame(fields'))
                 => IF results_cur # <<>>
                    THEN results_prev' = results_cur /\ results_cur' = <<>>
                    ELSE UNCHANGED <<results_cur, results_prev>>
            /\ mode' = "Running"
                 => results_cur' = IF answers_all' = 0 THEN <<>>
                                   ELSE ScoreText(answers_correct', answers_all')
            /\ (mode = "Running" /\ mode' = "Stopped")
                 => results_cur' = results_cur]_vars

\* C11: a game has started after a game with one answer, a correct one.
C11_Witness ==
    /\ last.op = "start_game"
    /\ mode = "Running"
    /\ results_prev = <<"1", " ", "/", " ", "1">>
    /\ results_cur = <<>>
    /\ answers_all = 0

\* C12: when a running game stops, by the Stop button or by the countdown,
\* both counters and the time left become 0 and the two results texts stay;
\* while the game stays stopped (and the window open) both texts stay as
\* well, so the results of the game that ended are shown as current until
\* the next successful start.
C12_StopKeepsResults ==
    [][window' = "open"
         => /\ (mode = "Running" /\ mode' = "Stopped")
                 => /\ answers_correct' = 0
                    /\ answers_all' = 0
                    /\ time_left' = 0
                    /\ UNCHANGED <<results_cur, results_prev>>
            /\ (mode = "Stopped" /\ mode' = "Stopped")
                 => UNCHANGED <<results_cur, results_prev>>]_vars

\* C12: the countdown has stopped a game in which a correct answer was given.
C12_Witness ==
    /\ last.op = "countdown"
    /\ last.stops
    /\ mode = "Stopped"
    /\ results_cur = <<"1", " ", "/", " ", "1">>
    /\ answers_correct = 0
    /\ answers_all = 0
    /\ time_left = 0

\* C13: stop_game on a stopped game changes nothing of the session. In
\* every stopped state the mode, the counters and the time left are already
\* what stop_game assigns (it writes neither the settings nor the results
\* texts), and a countdown callback that fires while the game is stopped
\* does not call stop_game and leaves mode, settings, counters, both results
\* texts and the time left.
C13_StopWhileStopped ==
    [][/\ (window = "open" /\ mode = "Stopped")
            => /\ stop_game.mode = mode
               /\ stop_game.answers_correct = answers_correct
               /\ stop_game.answers_all = answers_all
               /\ stop_game.time_left = time_left
       /\ (mode = "Stopped" /\ Tick)
            => /\ ~ last'.stops
               /\ UNCHANGED <<mode, settings, answers_correct, answers_all,
                              results_cur, results_prev, time_left>>]_vars

\* C13: a countdown callback has fired on a game stopped by the Stop button
\* after an answer.
C13_Witness ==
    /\ last.op = "countdown"
    /\ ~ last.stops
    /\ mode = "Stopped"
    /\ stoptimer
    /\ results_cur # <<>>

AllIntegers(f) ==
    /\ ~ int_ValueError(f.numbercount)
    /\ ~ int_ValueError(f.range_lower)
    /\ ~ int_ValueError(f.range_upper)
    /\ ~ int_ValueError(f.time_limit)

C16_IntegersOnly ==
    (result.returned /\ ~ AllIntegers(args))
      => result.value.errors = <<ERR_INTEGERS>>

\* C16: the time limit alone was no integer, in an input that breaks the
\* rules on the number count, the ranges and the operator.
C16_Witness ==
    /\ result.returned
    /\ result.value.errors = <<ERR_INTEGERS>>
    /\ args.numbercount = str(MAX_NUMBERS + 1)
    /\ args.range_lower = str(RANGE_LIMIT + 1)
    /\ args.range_upper = str(-1)
    /\ args.operator = <<"/">>
    /\ args.time_limit = <<>>

\* The numbers of ns taken from left to right: the first, then each later
\* one added to, taken off or multiplied with what the ones before gave.
RECURSIVE LeftToRight(_, _)
LeftToRight(ns, op) ==
    IF Len(ns) = 1 THEN ns[1]
    ELSE LET before == LeftToRight(SubSeq(ns, 1, Len(ns) - 1), op)
             x == ns[Len(ns)]
         IN  CASE op = <<"+">> -> before + x
               [] op = <<"-">> -> before - x
               [] op = <<"·">> -> before * x

\* C17: for a list of one or more numbers and an operator of OPERATORS
\* get_answer returns the sum of the numbers for "+", the first number with
\* each later one taken off in the order of the list for "-", and the
\* product taken from left to right for "·", and shows no dialog.
C17_LeftFold ==
    (result.returned /\ args.op \in {<<"+">>, <<"-">>, <<"·">>})
      => /\ result.value = LeftToRight(args.numbers, args.op)
         /\ result.shown = <<>>

\* C17: 7 - 2 - 1 has been answered with 4.
C17_Witness ==
    /\ result.returned
    /\ args = [numbers |-> <<7, 2, 1>>, op |-> <<"-">>]
    /\ result.value = 4

\* C18 as claimed: for an operator that is none of OPERATORS get_answer
\* returns no number: the call ends in an error.
C18_NoDefaultAnswer ==
    (args.op \notin {<<"+">>, <<"-">>, <<"·">>}) => ~ result.returned

\* C19: the settings the program holds always satisfy the rules of the
\* settings: 2 <= numbercount <= MAX_NUMBERS, 0 <= range_lower < range_upper
\* <= RANGE_LIMIT, the operator one of OPERATORS, 0 <= time_limit <
\* MAX_TIME_LIMIT; at launch, after every start, failed or not, and at quit.
C19_SettingsValid ==
    /\ 2 <= settings.numbercount /\ settings.numbercount <= MAX_NUMBERS
    /\ 0 <= settings.range_lower
    /\ settings.range_lower < settings.range_upper
    /\ settings.range_upper <= RANGE_LIMIT
    /\ settings.operator \in {<<"+">>, <<"-">>, <<"·">>}
    /\ 0 <= settings.time_limit /\ settings.time_limit < MAX_TIME_LIMIT

\* C20: read_cfg after write_cfg of settings that passed validation returns
\* settings with the same five keys and the same value for each; no dialog
\* is shown and the file is left as written, so nothing falls back to the
\* defaults.
C20_WriteThenRead ==
    result.returned
      => /\ DOMAIN result.value.settings = DOMAIN args
         /\ \A k \in DOMAIN args : result.value.settings[k] = args[k]
         /\ result.value.shown = <<>>
         /\ result.value.file = write_cfg(args)

\* C20: settings at the upper limits, not the defaults, have been saved and
\* loaded.
C20_Witness ==
    /\ result.returned
    /\ args.numbercount = MAX_NUMBERS
    /\ args.range_lower = RANGE_LIMIT - 1
    /\ args.range_upper = RANGE_LIMIT
    /\ args.operator = <<"·">>
    /\ args.time_limit = MAX_TIME_LIMIT - 1
    /\ result.value.settings.time_limit = MAX_TIME_LIMIT - 1
    /\ result.value.shown = <<>>

\* C21 as claimed: a successful start with a time limit T > 0 leaves T as
\* the time left, before any countdown callback has fired.
C21_TimeLeftIsLimit ==
    [][(StartGame(fields') /\ mode' = "Running" /\ settings'.time_limit > 0)
         => time_left' = settings'.time_limit]_vars

\* C21 as amended: a successful start with a time limit T > 0 leaves T - 1
\* as the time left and schedules one countdown callback, countdown(T - 1),
\* behind those already scheduled, with the flag reset; a successful start
\* with time limit 0 leaves the time left and schedules nothing.
C21_TimeLeftIsLimitLessOne ==
    [][(StartGame(fields') /\ mode' = "Running")
         => /\ stoptimer' = FALSE
            /\ IF settings'.time_limit > 0
               THEN /\ time_left' = settings'.time_limit - 1
                    /\ Len(pending') = Len(pending) + 1
                    /\ SubSeq(pending', 1, Len(pending)) = pending
                    /\ pending'[Len(pending')].count = settings'.time_limit - 1
               ELSE UNCHANGED <<time_left, pending>>]_vars

\* C21: a game of time limit 2 has started, no callback has fired, and the
\* time left is 1.
C21_Witness ==
    /\ last.op = "start_game"
    /\ mode = "Running"
    /\ settings.time_limit = 2
    /\ time_left = 1
    /\ pending = <<[count |-> 1, stale |-> FALSE]>>

\* C22: a game started with a time limit above 0 is stopped in the end, when
\* every countdown callback scheduled is run: whatever answers are given and
\* also when the Stop button is never pressed.
C22_TimedGameStops ==
    (mode = "Running" /\ settings.time_limit > 0) ~> (mode = "Stopped")

\* C22: the countdown has stopped a game of time limit 1 in which one answer,
\* not a correct one, was counted.
C22_Witness ==
    /\ window = "open"
    /\ last.op = "countdown"
    /\ last.stops
    /\ mode = "Stopped"
    /\ settings.time_limit = 1
    /\ results_cur = <<"0", " ", "/", " ", "1">>

\* C23 as claimed: in every state at most one countdown callback is
\* scheduled that takes effect when it fires (the flag is not set), so two
\* chains of callbacks never run at once, and while one game runs the time
\* left never grows.
C23_OneLiveChain ==
    /\ [](~ stoptimer => Len(pending) <= 1)
    /\ [][(mode = "Running" /\ mode' = "Running") => time_left' <= time_left]_vars

\* C24: in every state the number of correct answers counted is at least 0
\* and at most the number of all answers counted; while the game is stopped
\* both are 0; while it runs answers_all is the number of attempts made since
\* the start of that game (the empty text, which is a skip, and every
\* integer, correct or not; no other text) and answers_correct the number of
\* those that were the integer asked for.
C24_CountersMatchAttempts ==
    /\ 0 <= answers_correct
    /\ answers_correct <= answers_all
    /\ mode = "Stopped" => (answers_correct = 0 /\ answers_all = 0)
    /\ mode = "Running"
         => (answers_all = attempts.all /\ answers_correct = attempts.correct)

\* C24: in the second game, after one game with one answer that was not
\* correct, the integer asked for has been given and then whitespace alone,
\* which is no attempt: one answer is counted, and it is correct.
C24_Witness ==
    /\ mode = "Running"
    /\ last.op = "answer_process"
    /\ last.text = <<" ">>
    /\ results_prev = <<"0", " ", "/", " ", "1">>
    /\ attempts = [all |-> 1, correct |-> 1]
    /\ answers_all = 1
    /\ answers_correct = 1

====
